---- MODULE Spec2Model ----
(***************************************************************************)
(* renderlayout: the data-merge / error-aggregation pipeline in front of   *)
(* the goview template engine, in its two generations:                     *)
(*   gen "render" : src/render.go          (Render closure returned by New)*)
(*   gen "layout" : src/unnamed/part_000   (LayoutRenderer.Handle,         *)
(*                                          HandleStatic[WithData])        *)
(* Go strings are sequences of runes (one-character strings); Go maps are  *)
(* records [isNil, kv]; interface values are tagged records.               *)
(***************************************************************************)
EXTENDS Integers, Sequences, FiniteSets, TLC

VARIABLES lr, err, req, boot, heap

vars == <<lr, err, req, boot, heap>>

\* ----------------------------------------------------------------- bounds
\* per-call data providers given to one Render(view, dataFuncs...) handler
MaxData == 2
\* requests in flight at once in the concurrent specification
NumConc == 2
\* options passed to one call of New
MaxOpts == 2
\* entries of the partials directory
MaxFiles == 3
\* successive requests served by one renderer
NumSeq == 2

\* ------------------------------------------------------------ Go values
NilV == [t |-> "nil"]
Str(s) == [t |-> "string", s |-> s]
Strs(l) == [t |-> "[]string", l |-> l]

EmptyKV == [k \in {} |-> NilV]
\* a nil map (what `return nil, err` hands back)
NilMap == [isNil |-> TRUE, kv |-> EmptyKV]
\* make(map[string]interface{})
Make == [isNil |-> FALSE, kv |-> EmptyKV]
MapOf(kv) == [isNil |-> FALSE, kv |-> kv]

\* m[k] on a Go map: the zero value (nil interface) when k is absent
Lookup(kv, k) == IF k \in DOMAIN kv THEN kv[k] ELSE NilV

\* for k, v := range src { dst[k] = v }
MergeKeepFirst(dst, src) ==
    [k \in DOMAIN dst \cup DOMAIN src |-> IF k \in DOMAIN dst THEN dst[k] ELSE src[k]]
MergeInto(dst, src) ==
    [k \in DOMAIN dst \cup DOMAIN src |-> IF k \in DOMAIN src THEN src[k] ELSE dst[k]]

\* dst[k] = v
Put(kv, k, v) == [x \in DOMAIN kv \cup {k} |-> IF x = k THEN v ELSE kv[x]]

\* ------------------------------------------------------------ Go errors
ErrNil == [isNil |-> TRUE, msg |-> <<>>, hasCause |-> FALSE, cause |-> <<>>]
\* errors.New(msg)
ErrNew(msg) == [isNil |-> FALSE, msg |-> msg, hasCause |-> FALSE, cause |-> <<>>]
\* fmt.Errorf("r: %w", errors.New(cause))
ErrWrap(cause) ==
    [isNil |-> FALSE, msg |-> <<"r", ":">> \o cause, hasCause |-> TRUE, cause |-> cause]
\* errors.Unwrap(err)
Unwrap(e) == IF e.hasCause THEN ErrNew(e.cause) ELSE ErrNil

\* ------------------------------------------------------------ strings
\* the cased runes of the messages used here, as <<lower, upper>> pairs
Letters ==
    << <<"a", "A">>, <<"b", "B">>, <<"d", "D">>, <<"e", "E">>, <<"g", "G">>,
       <<"m", "M">>, <<"p", "P">>, <<"r", "R">>, <<"s", "S">>, <<"w", "W">>,
       <<"x", "X">>, <<"y", "Y">> >>
\* unicode.ToUpper on one rune
ToUpper(c) ==
    IF \E i \in 1..Len(Letters) : Letters[i][1] = c
    THEN (CHOOSE p \in {Letters[i] : i \in 1..Len(Letters)} : p[1] = c)[2]
    ELSE c
ToLowerRune(c) ==
    IF \E i \in 1..Len(Letters) : Letters[i][2] = c
    THEN (CHOOSE p \in {Letters[i] : i \in 1..Len(Letters)} : p[2] = c)[1]
    ELSE c
\* strings.ToLower
ToLower(s) == [i \in 1..Len(s) |-> ToLowerRune(s[i])]
\* first: upper-cases the first rune
firstKeep(str) == str
first(str) ==
    IF Len(str) = 0 THEN <<>>
    ELSE [i \in 1..Len(str) |-> IF i = 1 THEN ToUpper(str[i]) ELSE str[i]]

\* the %s verb of fmt.Sprintf applied to an interface value
FmtS(v) ==
    IF v.t = "string" THEN v.s
    ELSE <<"%", "!", "s", "(", "<", "n", "i", "l", ">", ")">>

Flags == {"+", "-", "#", " ", "0"}
RECURSIVE SkipFlags(_)
SkipFlags(s) == IF s # <<>> /\ Head(s) \in Flags THEN SkipFlags(Tail(s)) ELSE s
\* fmt.Fprintf(w, format) with no operands: what is written for `format`
RECURSIVE Sprintf0(_)
Sprintf0(s) ==
    IF s = <<>> THEN <<>>
    ELSE IF Head(s) # "%" THEN <<Head(s)>> \o Sprintf0(Tail(s))
    ELSE LET rest == SkipFlags(Tail(s)) IN
         IF rest = <<>> THEN <<"%", "!", "(", "N", "O", "V", "E", "R", "B", ")">>
         ELSE IF Head(rest) = "%" THEN <<"%">> \o Sprintf0(Tail(rest))
         ELSE <<"%", "!", Head(rest), "(", "M", "I", "S", "S", "I", "N", "G", ")">>
                  \o Sprintf0(Tail(rest))

\* ------------------------------------------------------- configuration
InternalError == <<"I", "n", "t", "e", "r", "n", "a", "l", " ", "E", "r", "r", "o", "r">>
SomethingWentWrong ==
    <<"S", "o", "m", "e", "t", "h", "i", "n", "g", " ", "w", "e", "n", "t", " ",
      "w", "r", "o", "n", "g", ".">>

Templates == <<"t", "e", "m", "p", "l", "a", "t", "e", "s">>
PartialsDir == <<"p", "a", "r", "t", "i", "a", "l", "s">>
LayoutsDir == <<"l", "a", "y", "o", "u", "t", "s">>
Index == <<"i", "n", "d", "e", "x">>
DotHtml == <<".", "h", "t", "m", "l">>

\* template.FuncMap: function name -> implementation; nil before AddFuncs
NoFuncs == [n \in {} |-> "none"]
\* sprig.FuncMap(), the baseline library
SprigFuncMap == [n \in {"upper", "trim"} |-> "sprig"]
\* lr.viewEngine before goview.New
NoEngine == [built |-> FALSE]

\* the struct literal New seeds before the options run
Defaults(gen) ==
    [gen |-> gen,
     root |-> Templates,
     partials |-> PartialsDir,
     errorKey |-> IF gen = "render" THEN "errors" ELSE "error",
     layout |-> Index,
     layouts |-> LayoutsDir,
     extension |-> DotHtml,
     defaultError |-> InternalError,
     renderError |-> SomethingWentWrong,
     disableCache |-> FALSE,
     funcs |-> NoFuncs,
     viewEngine |-> NoEngine,
     hasDefault |-> FALSE,
     debug |-> FALSE]

\* one functional option applied to the renderer
\* (an option carries its argument as v: bool, k: key, r: runes or m: FuncMap)
ApplyOptOnce(cfg, opt) ==
    LET d == Defaults(cfg.gen) IN
    CASE opt.f = "defaultData" ->
             IF cfg.hasDefault = d.hasDefault THEN [cfg EXCEPT !.hasDefault = opt.v] ELSE cfg
      [] opt.f = "errorKey" ->
             IF cfg.errorKey = d.errorKey THEN [cfg EXCEPT !.errorKey = opt.k] ELSE cfg
      [] opt.f = "partials" ->
             IF cfg.partials = d.partials THEN [cfg EXCEPT !.partials = opt.r] ELSE cfg
      [] opt.f = "extension" ->
             IF cfg.extension = d.extension
             THEN [cfg EXCEPT !.extension = <<".">> \o opt.r] ELSE cfg
      [] opt.f = "funcs" ->
             IF cfg.funcs = d.funcs THEN [cfg EXCEPT !.funcs = opt.m] ELSE cfg
      [] opt.f = "defaultError" ->
             IF cfg.defaultError = d.defaultError
             THEN [cfg EXCEPT !.defaultError = opt.r] ELSE cfg
      [] opt.f = "renderError" ->
             IF cfg.renderError = d.renderError
             THEN [cfg EXCEPT !.renderError = opt.r] ELSE cfg
      [] opt.f = "debug" ->
             IF cfg.debug = d.debug THEN [cfg EXCEPT !.debug = opt.v] ELSE cfg
ApplyOpt(cfg, opt) ==
    CASE opt.f = "defaultData" -> [cfg EXCEPT !.hasDefault = opt.v]
      [] opt.f = "errorKey" -> [cfg EXCEPT !.errorKey = opt.k]
      [] opt.f = "root" -> [cfg EXCEPT !.root = opt.r]
      [] opt.f = "layouts" -> [cfg EXCEPT !.layouts = opt.r]
      [] opt.f = "partials" -> [cfg EXCEPT !.partials = opt.r]
      [] opt.f = "layout" -> [cfg EXCEPT !.layout = opt.r]
      [] opt.f = "extension" -> [cfg EXCEPT !.extension = <<".">> \o opt.r]
      [] opt.f = "disableCache" -> [cfg EXCEPT !.disableCache = opt.v]
      [] opt.f = "funcs" -> [cfg EXCEPT !.funcs = opt.m]
      [] opt.f = "defaultError" -> [cfg EXCEPT !.defaultError = opt.r]
      [] opt.f = "renderError" -> [cfg EXCEPT !.renderError = opt.r]
      [] opt.f = "debug" -> [cfg EXCEPT !.debug = opt.v]

RECURSIVE ApplyOpts(_, _)
ApplyOpts(cfg, opts) ==
    IF opts = <<>> THEN cfg ELSE ApplyOpts(ApplyOpt(cfg, Head(opts)), Tail(opts))

\* allFuncs: the user's functions copied first, then sprig's copied over them
NewFuncs(cfg) == [cfg EXCEPT !.funcs = MergeInto(cfg.funcs, SprigFuncMap)]

\* strings.HasSuffix / strings.TrimSuffix
HasInfix(s, suffix) ==
    \E i \in 1..Len(s) : i + Len(suffix) - 1 <= Len(s)
                         /\ SubSeq(s, i, i + Len(suffix) - 1) = suffix
HasSuffix(s, suffix) ==
    Len(s) >= Len(suffix) /\ SubSeq(s, Len(s) - Len(suffix) + 1, Len(s)) = suffix
TrimSuffix(s, suffix) ==
    IF HasSuffix(s, suffix) THEN SubSeq(s, 1, Len(s) - Len(suffix)) ELSE s

\* the partial identifiers New collects from the entries ReadDir returned
RECURSIVE Discover(_, _)
Discover(cfg, files) ==
    IF files = <<>> THEN <<>>
    ELSE (IF ~HasSuffix(Head(files), cfg.extension) THEN <<>>
          ELSE << cfg.partials \o <<"/">> \o TrimSuffix(Head(files), cfg.extension) >>)
         \o Discover(cfg, Tail(files))

\* goview.New(goview.Config{...}) and lr.viewEngine = viewEngine
NewEngine(cfg, partials) ==
    [cfg EXCEPT !.viewEngine =
        [built |-> TRUE,
         Root |-> cfg.root,
         Extension |-> cfg.extension,
         Master |-> cfg.layouts \o <<"/">> \o cfg.layout,
         Partials |-> partials,
         DisableCache |-> cfg.disableCache,
         Funcs |-> SprigFuncMap]]

\* New(opts...) on a readable partials directory
New(gen, opts, files) ==
    LET cfg == NewFuncs(ApplyOpts(Defaults(gen), opts)) IN
    NewEngine(cfg, Discover(cfg, files))

\* the directory entries ioutil.ReadDir can return, sorted by name
DotHtmlFile == DotHtml
FooterHtml == <<"f", "o", "o", "t", "e", "r", ".", "h", "t", "m", "l">>
HeaderHtml == <<"h", "e", "a", "d", "e", "r", ".", "h", "t", "m", "l">>
HeaderHtmlBak == <<"h", "e", "a", "d", "e", "r", ".", "h", "t", "m", "l", ".", "b", "a", "k">>
NotesTxt == <<"n", "o", "t", "e", "s", ".", "t", "x", "t">>
SortedNames == <<DotHtmlFile, FooterHtml, HeaderHtml, HeaderHtmlBak, NotesTxt>>
ExampleDir == <<FooterHtml, HeaderHtml, NotesTxt>>

Gens == {"render", "layout"}
OptSeqs == {<<>>, <<[f |-> "defaultData", v |-> TRUE]>>}

\* New has returned: nothing is left of the construction
Serving(opts, files) ==
    [stage |-> "built", all |-> opts, todo |-> <<>>, dir |-> [ok |-> TRUE, files |-> files],
     found |-> <<>>]

\* ------------------------------------------------- inputs (providers)
\* keys a provider may return: one ordinary key and the configured error key
Keys(cfg) == {"title", cfg.errorKey}
TitleVals == {Str(<<"x">>), Str(<<"y">>)}
ErrKeyVals == {Str(<<"x">>), NilV}

KVs(cfg) ==
    {EmptyKV}
    \cup {[k \in {"title"} |-> v] : v \in TitleVals}
    \cup {[k \in {cfg.errorKey} |-> v] : v \in ErrKeyVals}
    \cup {[k \in Keys(cfg) |-> Str(<<"x">>)]}
Maps(cfg) == {NilMap} \cup {MapOf(kv) : kv \in KVs(cfg)}

Causes == {<<"a", "B">>}
Errs == {ErrNil, ErrNew(<<"r">>)} \cup {ErrWrap(c) : c \in Causes}

\* what one call of a data provider returns: (map, error)
Outcomes(cfg) == [data : Maps(cfg), err : Errs]
SmallOutcomes(cfg) ==
    [data : {MapOf([k \in {"title"} |-> Str(<<"x">>)])}, err : {ErrNil, ErrWrap(<<"a", "B">>)}]

\* what the Template Engine's Render returns
EngineErr == ErrNew(<<"t">>)
EngineResults == {ErrNil, EngineErr}

\* ------------------------------------------------------ request state
Idle ==
    [kind |-> "idle", pc |-> "idle", nData |-> 0, static |-> NilMap,
     viewData |-> EmptyKV, errStrings |-> <<>>, data |-> NilMap, i |-> 1,
     outs |-> <<>>, ret |-> ErrNil, rendered |-> FALSE, ctx |-> NilMap, body |-> <<>>]

Doc(ctx) == [w |-> "document", ctx |-> ctx, text |-> <<>>]
Text(s) == [w |-> "text", ctx |-> NilMap, text |-> s]

\* the cause message as shown to the user
Display(e) == first(ToLower(Unwrap(e).msg))

\* ------------------------------------------- gen "render": render.go
\* if err != nil { viewError := errors.Unwrap(err); if viewError != nil { append } }
RenderErrAll(errStrings, e) ==
    IF e.isNil THEN errStrings
    ELSE IF e.hasCause THEN Append(errStrings, Display(e))
    ELSE Append(errStrings, e.msg)
RenderErr(errStrings, e) ==
    IF e.isNil THEN errStrings
    ELSE IF ~Unwrap(e).isNil THEN Append(errStrings, Display(e))
    ELSE errStrings

\* the default provider's block of the Render closure
RenderDefaultStep(rq, out) ==
    [rq EXCEPT !.errStrings = RenderErr(@, out.err),
               !.viewData = MergeInto(@, out.data.kv),
               !.outs = Append(@, [p |-> 0, data |-> out.data, err |-> out.err]),
               !.pc = "loop"]

\* one iteration of `for _, dataFunc := range dataFuncs`
RenderDataStepBreak(rq, out) ==
    [rq EXCEPT !.errStrings = RenderErr(@, out.err),
               !.viewData = MergeInto(@, out.data.kv),
               !.outs = Append(@, [p |-> rq.i, data |-> out.data, err |-> out.err]),
               !.i = IF out.err.isNil THEN @ + 1 ELSE rq.nData + 1]
RenderDataStepDrop(rq, out) ==
    [rq EXCEPT !.errStrings = RenderErr(@, out.err),
               !.viewData = IF out.err.isNil THEN MergeInto(@, out.data.kv) ELSE @,
               !.outs = Append(@, [p |-> rq.i, data |-> out.data, err |-> out.err]),
               !.i = @ + 1]
RenderDataStep(rq, out) ==
    [rq EXCEPT !.errStrings = RenderErr(@, out.err),
               !.viewData = MergeInto(@, out.data.kv),
               !.outs = Append(@, [p |-> rq.i, data |-> out.data, err |-> out.err]),
               !.i = @ + 1]

\* if len(errStrings) > 0 { viewData[lr.errorKey] = errStrings }
RenderSetErrorKeyNever(cfg, viewData, errStrings) == viewData
RenderSetErrorKey(cfg, viewData, errStrings) ==
    IF Len(errStrings) > 0 THEN Put(viewData, cfg.errorKey, Strs(errStrings))
    ELSE viewData

\* err = lr.viewEngine.Render(w, http.StatusOK, view, viewData)
RenderViewStep(cfg, rq, res) ==
    LET vd == RenderSetErrorKey(cfg, rq.viewData, rq.errStrings) IN
    [rq EXCEPT !.viewData = vd,
               !.ctx = MapOf(vd),
               !.rendered = TRUE,
               !.ret = res,
               !.body = IF res.isNil THEN Append(@, Doc(MapOf(vd))) ELSE @,
               !.pc = "check"]

\* if err != nil { ...; fmt.Fprintf(w, lr.renderError); return }
RenderCheckStep(cfg, rq, seen) ==
    [rq EXCEPT !.body = IF ~seen.isNil THEN Append(@, Text(Sprintf0(cfg.renderError))) ELSE @,
               !.pc = "done"]

\* ---------------------------------------- gen "layout": part_000
\* the default handler's error block of Handle / HandleStaticWithData
HandleErrDefault(cfg, viewData, e) ==
    IF e.isNil THEN viewData
    ELSE IF ~Unwrap(e).isNil THEN Put(viewData, cfg.errorKey, Str(Display(e)))
    ELSE Put(viewData, cfg.errorKey, Str(cfg.defaultError))

HandleDefaultStep(cfg, rq, out) ==
    [rq EXCEPT !.viewData = MergeInto(HandleErrDefault(cfg, @, out.err), out.data.kv),
               !.outs = Append(@, [p |-> 0, data |-> out.data, err |-> out.err]),
               !.pc = IF rq.kind = "Handle" THEN "view" ELSE "static"]

\* the view handler's error block of Handle
HandleErrViewRaw(cfg, viewData, e) ==
    IF e.isNil THEN viewData
    ELSE IF ~Unwrap(e).isNil THEN Put(viewData, cfg.errorKey, Str(Display(e)))
    ELSE Put(viewData, cfg.errorKey, Str(e.msg))
HandleErrView(cfg, viewData, e) ==
    IF e.isNil THEN viewData
    ELSE IF ~Unwrap(e).isNil
         THEN IF Lookup(viewData, cfg.errorKey) # NilV
              THEN Put(viewData, cfg.errorKey,
                       Str(FmtS(Lookup(viewData, cfg.errorKey)) \o <<" ">> \o Display(e)))
              ELSE Put(viewData, cfg.errorKey, Str(Display(e)))
         ELSE Put(viewData, cfg.errorKey, Str(cfg.defaultError))

\* data, err := viewHandlerFunc(w, r) and its error block
HandleViewStep(cfg, rq, out) ==
    [rq EXCEPT !.data = out.data,
               !.viewData = HandleErrView(cfg, @, out.err),
               !.outs = Append(@, [p |-> 1, data |-> out.data, err |-> out.err]),
               !.pc = "merge"]

\* for k, v := range viewData { data[k] = v } panics on a nil data map
HandlePanics(data, viewData) == data.isNil /\ viewData # EmptyKV
\* the map handed to the engine by Handle: data after the loop
HandleCtx(data, viewData) == [isNil |-> data.isNil, kv |-> MergeInto(data.kv, viewData)]

\* the merge loop, the engine call and the fallback of Handle
HandleRenderStep(cfg, rq, res) ==
    IF HandlePanics(rq.data, rq.viewData) THEN [rq EXCEPT !.pc = "panic"]
    ELSE LET c == HandleCtx(rq.data, rq.viewData) IN
         [rq EXCEPT !.data = c,
                    !.ctx = c,
                    !.rendered = TRUE,
                    !.ret = res,
                    !.body = IF res.isNil THEN Append(@, Doc(c))
                             ELSE Append(@, Text(Sprintf0(cfg.renderError))),
                    !.pc = "done"]

\* the static merge, the engine call and the fallback of HandleStaticWithData
StaticRenderStep(cfg, rq, res) ==
    LET vd == MergeInto(rq.viewData, rq.static.kv) IN
    [rq EXCEPT !.viewData = vd,
               !.ctx = MapOf(vd),
               !.rendered = TRUE,
               !.ret = res,
               !.body = IF res.isNil THEN Append(@, Doc(MapOf(vd)))
                        ELSE Append(@, Text(Sprintf0(cfg.renderError))),
               !.pc = "done"]

\* --------------------------------------------------------- actions
Reqs == DOMAIN req

\* a request reaches a handler built by Render(view, dataFuncs...),
\* lr.Handle(view, f) or lr.HandleStaticWithData(view, data)
Request(r, maxData, statics) ==
    /\ boot.stage = "built"
    /\ req[r].pc = "idle"
    /\ \/ /\ lr.gen = "render"
          /\ \E n \in 0..maxData :
                req' = [req EXCEPT ![r] = [Idle EXCEPT !.kind = "Render", !.nData = n,
                            !.pc = IF lr.hasDefault THEN "default" ELSE "loop"]]
       \/ /\ lr.gen = "layout"
          /\ req' = [req EXCEPT ![r] = [Idle EXCEPT !.kind = "Handle",
                            !.pc = IF lr.hasDefault THEN "default" ELSE "view"]]
       \/ /\ lr.gen = "layout"
          /\ \E d \in statics :
                req' = [req EXCEPT ![r] = [Idle EXCEPT !.kind = "HandleStatic", !.static = d,
                            !.pc = IF lr.hasDefault THEN "default" ELSE "static"]]
    /\ UNCHANGED <<lr, err, boot, heap>>

RenderDefault(r, outs) ==
    /\ req[r].kind = "Render" /\ req[r].pc = "default"
    /\ \E out \in outs : req' = [req EXCEPT ![r] = RenderDefaultStep(req[r], out)]
    /\ UNCHANGED <<lr, err, boot, heap>>

RenderData(r, outs) ==
    /\ req[r].kind = "Render" /\ req[r].pc = "loop" /\ req[r].i <= req[r].nData
    /\ \E out \in outs : req' = [req EXCEPT ![r] = RenderDataStep(req[r], out)]
    /\ UNCHANGED <<lr, err, boot, heap>>

\* the engine call; its result is assigned to the err variable of New
RenderView(r) ==
    /\ req[r].kind = "Render" /\ req[r].pc = "loop" /\ req[r].i > req[r].nData
    /\ \E res \in EngineResults :
          /\ req' = [req EXCEPT ![r] = RenderViewStep(lr, req[r], res)]
          /\ err' = res
    /\ UNCHANGED <<lr, boot, heap>>

\* the unsynchronised read of err: the value this request wrote, or the
\* value another request wrote to the same variable since
RenderCheck(r) ==
    /\ req[r].kind = "Render" /\ req[r].pc = "check"
    /\ \E seen \in {req[r].ret, err} :
          req' = [req EXCEPT ![r] = RenderCheckStep(lr, req[r], seen)]
    /\ UNCHANGED <<lr, err, boot, heap>>

HandleDefault(r, outs) ==
    /\ req[r].kind \in {"Handle", "HandleStatic"} /\ req[r].pc = "default"
    /\ \E out \in outs : req' = [req EXCEPT ![r] = HandleDefaultStep(lr, req[r], out)]
    /\ UNCHANGED <<lr, err, boot, heap>>

HandleView(r, outs) ==
    /\ req[r].kind = "Handle" /\ req[r].pc = "view"
    /\ \E out \in outs : req' = [req EXCEPT ![r] = HandleViewStep(lr, req[r], out)]
    /\ UNCHANGED <<lr, err, boot, heap>>

HandleRender(r) ==
    /\ req[r].kind = "Handle" /\ req[r].pc = "merge"
    /\ \E res \in EngineResults : req' = [req EXCEPT ![r] = HandleRenderStep(lr, req[r], res)]
    /\ UNCHANGED <<lr, err, boot, heap>>

StaticRender(r) ==
    /\ req[r].kind = "HandleStatic" /\ req[r].pc = "static"
    /\ \E res \in EngineResults : req' = [req EXCEPT ![r] = StaticRenderStep(lr, req[r], res)]
    /\ UNCHANGED <<lr, err, boot, heap>>

\* ---------------------------------------------------- specifications
\* one request at a time, every provider outcome
Init ==
    /\ \E g \in Gens, o \in OptSeqs :
          /\ lr = New(g, o, ExampleDir)
          /\ boot = Serving(o, ExampleDir)
    /\ err = ErrNil
    /\ heap = NilMap
    /\ req = [r \in {1} |-> Idle]

Next ==
    \/ \E r \in Reqs : Request(r, MaxData, Maps(lr))
    \/ \E r \in Reqs : RenderDefault(r, Outcomes(lr))
    \/ \E r \in Reqs : RenderData(r, Outcomes(lr))
    \/ \E r \in Reqs : RenderView(r)
    \/ \E r \in Reqs : RenderCheck(r)
    \/ \E r \in Reqs : HandleDefault(r, Outcomes(lr))
    \/ \E r \in Reqs : HandleView(r, Outcomes(lr))
    \/ \E r \in Reqs : HandleRender(r)
    \/ \E r \in Reqs : StaticRender(r)

Spec == Init /\ [][Next]_vars

\* NumConc requests in flight against one renderer, few provider outcomes
InitConc ==
    /\ \E g \in Gens, o \in OptSeqs :
          /\ lr = New(g, o, ExampleDir)
          /\ boot = Serving(o, ExampleDir)
    /\ err = ErrNil
    /\ heap = NilMap
    /\ req = [r \in 1..NumConc |-> Idle]

NextConc ==
    \/ \E r \in Reqs : Request(r, 1, {NilMap})
    \/ \E r \in Reqs : RenderDefault(r, SmallOutcomes(lr))
    \/ \E r \in Reqs : RenderData(r, SmallOutcomes(lr))
    \/ \E r \in Reqs : RenderView(r)
    \/ \E r \in Reqs : RenderCheck(r)
    \/ \E r \in Reqs : HandleDefault(r, SmallOutcomes(lr))
    \/ \E r \in Reqs : HandleView(r, SmallOutcomes(lr))
    \/ \E r \in Reqs : HandleRender(r)
    \/ \E r \in Reqs : StaticRender(r)

SpecConc == InitConc /\ [][NextConc]_vars

\* one request at a time, empty maps, every kind of provider error
MaxCauseLen == 2
CauseRunes == {"a", "B", " "}
AWrappedMessage ==
    <<"a", " ", "w", "r", "a", "p", "p", "e", "d", " ", "m", "e", "s", "s", "a", "g", "e">>
ClassifyCauses ==
    UNION {[1..n -> CauseRunes] : n \in 0..MaxCauseLen} \cup {AWrappedMessage}
\* errors.New("db!"): nothing to unwrap
RawInternal == <<"d", "b", "!">>
ClassifyErrs == {ErrNil, ErrNew(RawInternal)} \cup {ErrWrap(c) : c \in ClassifyCauses}
ClassifyOutcomes == [data : {Make}, err : ClassifyErrs]

NextClassify ==
    \/ \E r \in Reqs : Request(r, 1, {Make})
    \/ \E r \in Reqs : RenderDefault(r, ClassifyOutcomes)
    \/ \E r \in Reqs : RenderData(r, ClassifyOutcomes)
    \/ \E r \in Reqs : RenderView(r)
    \/ \E r \in Reqs : RenderCheck(r)
    \/ \E r \in Reqs : HandleDefault(r, ClassifyOutcomes)
    \/ \E r \in Reqs : HandleView(r, ClassifyOutcomes)
    \/ \E r \in Reqs : HandleRender(r)
    \/ \E r \in Reqs : StaticRender(r)

SpecClassify == Init /\ [][NextClassify]_vars

\* one request at a time on a renderer built with a RenderError option
Ok == <<"o", "k">>
Percent100 == <<"1", "0", "0", "%">>
FallbackMessages == {Ok, Percent100}
FallbackOptSeqs ==
    {a \o b : a \in OptSeqs,
              b \in {<<>>} \cup {<<[f |-> "renderError", r |-> m]>> : m \in FallbackMessages}}

InitFallback ==
    /\ \E g \in Gens, o \in FallbackOptSeqs :
          /\ lr = New(g, o, ExampleDir)
          /\ boot = Serving(o, ExampleDir)
    /\ err = ErrNil
    /\ heap = NilMap
    /\ req = [r \in {1} |-> Idle]

SpecFallback == InitFallback /\ [][NextConc]_vars

\* successive requests whose providers all return one and the same map
\* object (a package-level map, or the d of StaticData(d)); heap is that object
SharedPage == MapOf([k \in {"title"} |-> Str(<<"x">>)])
SharedOutcomes == [data : {heap}, err : {ErrNil, ErrWrap(<<"a", "B">>)}]

\* a request arrives after the requests before it have ended
RequestNext(r) ==
    /\ \A q \in Reqs : q < r => req[q].pc \in {"done", "panic"}
    /\ Request(r, 1, {heap})

\* Handle's merge loop assigns into data, the map the view handler returned
HandleRenderShared(r) ==
    /\ req[r].kind = "Handle" /\ req[r].pc = "merge"
    /\ \E res \in EngineResults : req' = [req EXCEPT ![r] = HandleRenderStep(lr, req[r], res)]
    /\ heap' = IF HandlePanics(req[r].data, req[r].viewData) THEN heap
               ELSE HandleCtx(req[r].data, req[r].viewData)
    /\ UNCHANGED <<lr, err, boot>>

InitShared ==
    /\ \E g \in Gens, o \in OptSeqs :
          /\ lr = New(g, o, ExampleDir)
          /\ boot = Serving(o, ExampleDir)
    /\ err = ErrNil
    /\ heap = SharedPage
    /\ req = [r \in 1..NumSeq |-> Idle]

NextShared ==
    \/ \E r \in Reqs : RequestNext(r)
    \/ \E r \in Reqs : RenderDefault(r, SharedOutcomes)
    \/ \E r \in Reqs : RenderData(r, SharedOutcomes)
    \/ \E r \in Reqs : RenderView(r)
    \/ \E r \in Reqs : RenderCheck(r)
    \/ \E r \in Reqs : HandleDefault(r, SharedOutcomes)
    \/ \E r \in Reqs : HandleView(r, SharedOutcomes)
    \/ \E r \in Reqs : HandleRenderShared(r)
    \/ \E r \in Reqs : StaticRender(r)

SpecShared == InitShared /\ [][NextShared]_vars

\* ------------------------------------------------ New, step by step
\* the options a caller can pass (Debug exists in render.go only,
\* DefaultError in part_000 only)
Mine == [n \in {"mine"} |-> "user"]
MyUpper == [n \in {"upper"} |-> "user"]
NewOptions(gen) ==
    {[f |-> "errorKey", k |-> "e1"], [f |-> "errorKey", k |-> "e2"],
     [f |-> "extension", r |-> <<"t", "x", "t">>], [f |-> "extension", r |-> <<"b", "a", "k">>],
     [f |-> "partials", r |-> <<"p">>],
     [f |-> "funcs", m |-> Mine], [f |-> "funcs", m |-> MyUpper],
     [f |-> "defaultData", v |-> TRUE]}
    \cup (IF gen = "render" THEN {[f |-> "debug", v |-> TRUE]}
          ELSE {[f |-> "defaultError", r |-> <<"o", "o", "p", "s">>]})
NewOptSeqs(gen) == UNION {[1..n -> NewOptions(gen)] : n \in 0..MaxOpts}

\* a listing: the names at the positions S of SortedNames, in order
Listing(S) ==
    [j \in 1..Cardinality(S) |->
        SortedNames[CHOOSE i \in S : Cardinality({k \in S : k <= i}) = j]]
Listings ==
    {Listing(S) : S \in {T \in SUBSET (1..Len(SortedNames)) : Cardinality(T) <= MaxFiles}}
\* what ioutil.ReadDir returns: the entries, or an error
Dirs == {[ok |-> FALSE, files |-> <<>>]} \cup {[ok |-> TRUE, files |-> l] : l \in Listings}

\* for _, opt := range opts { opt(lr) }: one iteration
NewOption ==
    /\ boot.stage = "options" /\ boot.todo # <<>>
    /\ lr' = ApplyOpt(lr, Head(boot.todo))
    /\ boot' = [boot EXCEPT !.todo = Tail(@)]
    /\ UNCHANGED <<err, req, heap>>

\* allFuncs and lr.funcs = allFuncs
NewMergeFuncs ==
    /\ boot.stage = "options" /\ boot.todo = <<>>
    /\ lr' = NewFuncs(lr)
    /\ boot' = [boot EXCEPT !.stage = "readdir"]
    /\ UNCHANGED <<err, req, heap>>

\* fileInfo, err := ioutil.ReadDir(...); the partials loop; return nil, err
NewReadDir ==
    /\ boot.stage = "readdir"
    /\ IF boot.dir.ok
       THEN /\ boot' = [boot EXCEPT !.stage = "engine", !.found = Discover(lr, boot.dir.files)]
            /\ err' = ErrNil
       ELSE /\ boot' = [boot EXCEPT !.stage = "failed"]
            /\ err' = ErrNew(<<"d">>)
    /\ UNCHANGED <<lr, req, heap>>

\* goview.New(...) and the return of the renderer
NewBuild ==
    /\ boot.stage = "engine"
    /\ lr' = NewEngine(lr, boot.found)
    /\ boot' = [boot EXCEPT !.stage = "built"]
    /\ UNCHANGED <<err, req, heap>>

InitNew ==
    /\ \E g \in Gens :
          /\ lr = Defaults(g)
          /\ \E o \in NewOptSeqs(g), d \in Dirs :
                boot = [stage |-> "options", all |-> o, todo |-> o, dir |-> d, found |-> <<>>]
    /\ err = ErrNil
    /\ heap = NilMap
    /\ req = [r \in {1} |-> Idle]

NextNew ==
    \/ NewOption
    \/ NewMergeFuncs
    \/ NewReadDir
    \/ NewBuild

SpecNew == InitNew /\ [][NextNew]_vars

\* ------------------------------------------------ reading a request
\* the providers a finished Render request must have called, in order
ExpectedCalls(cfg, rq) ==
    (IF cfg.hasDefault THEN <<0>> ELSE <<>>) \o [j \in 1..rq.nData |-> j]
Calls(rq) == [j \in 1..Len(rq.outs) |-> rq.outs[j].p]
IsPrefix(s, t) == Len(s) <= Len(t) /\ \A j \in 1..Len(s) : s[j] = t[j]

Failed(o) == ~o.err.isNil
UserFacing(o) == ~o.err.isNil /\ o.err.hasCause
Writers(rq, k) == {j \in 1..Len(rq.outs) : k \in DOMAIN rq.outs[j].data.kv}
Last(S) == CHOOSE j \in S : \A i \in S : i <= j
UserOuts(rq) == SelectSeq(rq.outs, UserFacing)
WroteFallback(rq) == \E j \in 1..Len(rq.body) : rq.body[j].w = "text"

\* the request as it entered the handler
Entered(rq) == [Idle EXCEPT !.kind = rq.kind, !.nData = rq.nData, !.static = rq.static]
NoErrors(outs) == [j \in 1..Len(outs) |-> [outs[j] EXCEPT !.err = ErrNil]]
StripP(o) == [data |-> o.data, err |-> o.err]
\* the handler's provider steps run again over the outcomes `outs`
RECURSIVE Replay(_, _, _)
Replay(cfg, rq, outs) ==
    IF outs = <<>> THEN rq
    ELSE LET o == Head(outs)
             nxt == IF rq.kind = "Render"
                    THEN IF o.p = 0 THEN RenderDefaultStep(rq, StripP(o))
                         ELSE RenderDataStep(rq, StripP(o))
                    ELSE IF o.p = 0 THEN HandleDefaultStep(cfg, rq, StripP(o))
                         ELSE HandleViewStep(cfg, rq, StripP(o))
         IN Replay(cfg, nxt, Tail(outs))
\* the context the handler would hand to the engine from there
FinalCtx(cfg, rq) ==
    CASE rq.kind = "Render" -> MapOf(RenderSetErrorKey(cfg, rq.viewData, rq.errStrings))
      [] rq.kind = "Handle" -> HandleCtx(rq.data, rq.viewData)
      [] OTHER -> MapOf(MergeInto(rq.viewData, rq.static.kv))
Without(kv, k) == [x \in DOMAIN kv \ {k} |-> kv[x]]

\* the classified message of a failure in the single-error-key pipeline
Classified(cfg, e) == IF e.hasCause THEN Display(e) ELSE cfg.defaultError
ErrOf(rq, p) ==
    IF \E j \in 1..Len(rq.outs) : rq.outs[j].p = p
    THEN (CHOOSE o \in {rq.outs[j] : j \in 1..Len(rq.outs)} : o.p = p).err
    ELSE ErrNil

\* ------------------------------------------------------------ claims
\* C1: every handler runs to completion and writes a response, whatever the
\* providers and the engine return; no failure escapes as a panic.
C1_AlwaysWritesAResponse ==
    \A r \in Reqs :
        /\ req[r].pc # "panic"
        /\ req[r].pc = "done" => req[r].body # <<>>

\* C2: with requests in flight together on one renderer, a request writes
\* the fallback message if and only if its own engine call returned an error.
C2_FallbackIffOwnRenderFailed ==
    \A r \in Reqs :
        req[r].pc = "done" => (WroteFallback(req[r]) <=> ~req[r].ret.isNil)

\* C3: in the accumulating pipeline the default provider (if configured) is
\* called once first, then every per-call provider once in argument order,
\* whether or not an earlier provider failed.
C3_ProvidersRunInOrder ==
    \A r \in Reqs :
        req[r].kind = "Render" =>
            /\ IsPrefix(Calls(req[r]), ExpectedCalls(lr, req[r]))
            /\ req[r].rendered => Calls(req[r]) = ExpectedCalls(lr, req[r])

C3_Witness ==
    \E r \in Reqs :
        /\ req[r].kind = "Render" /\ req[r].rendered
        /\ Calls(req[r]) = <<0, 1, 2>>
        /\ Failed(req[r].outs[1]) /\ ~UserFacing(req[r].outs[1])
        /\ UserFacing(req[r].outs[2])

\* C4: in the accumulating pipeline every key other than the error key holds
\* the value of the last provider in run order whose map contains it, and a
\* key no provider returned is absent.
C4_LastWriterWins ==
    \A r \in Reqs :
        (req[r].kind = "Render" /\ req[r].rendered) =>
            \A k \in Keys(lr) \ {lr.errorKey} :
                IF Writers(req[r], k) = {} THEN k \notin DOMAIN req[r].ctx.kv
                ELSE /\ k \in DOMAIN req[r].ctx.kv
                     /\ req[r].ctx.kv[k] = req[r].outs[Last(Writers(req[r], k))].data.kv[k]

C4_Witness ==
    \E r \in Reqs :
        /\ req[r].kind = "Render" /\ req[r].rendered
        /\ Writers(req[r], "title") = {1, 2}
        /\ Calls(req[r]) = <<0, 1, 2>>
        /\ req[r].outs[1].data.kv["title"] = Str(<<"x">>)
        /\ req[r].outs[2].data.kv["title"] = Str(<<"y">>)
        /\ req[r].ctx.kv["title"] = Str(<<"y">>)

\* C5 as stated: the error key holds one string per UserFacing failure in
\* run order, and with no UserFacing failure the context has no entry at
\* the error key.
C5_NoUserFacingNoEntry ==
    \A r \in Reqs :
        (req[r].kind = "Render" /\ req[r].rendered) =>
            LET U == UserOuts(req[r]) IN
            IF U # <<>>
            THEN /\ lr.errorKey \in DOMAIN req[r].ctx.kv
                 /\ req[r].ctx.kv[lr.errorKey] = Strs([j \in 1..Len(U) |-> Display(U[j].err)])
            ELSE lr.errorKey \notin DOMAIN req[r].ctx.kv

\* C5 amended: the error key holds one string per UserFacing failure in run
\* order; Internal failures add none; with no UserFacing failure the layer
\* stores nothing there, so the context has an entry at the error key only
\* if a provider's own map returned that key (the last such provider's value).
C5_ErrorKeyListsUserFacing ==
    \A r \in Reqs :
        (req[r].kind = "Render" /\ req[r].rendered) =>
            LET U == UserOuts(req[r])
                W == Writers(req[r], lr.errorKey) IN
            IF U # <<>>
            THEN /\ lr.errorKey \in DOMAIN req[r].ctx.kv
                 /\ req[r].ctx.kv[lr.errorKey] = Strs([j \in 1..Len(U) |-> Display(U[j].err)])
            ELSE IF W = {} THEN lr.errorKey \notin DOMAIN req[r].ctx.kv
            ELSE /\ lr.errorKey \in DOMAIN req[r].ctx.kv
                 /\ req[r].ctx.kv[lr.errorKey] = req[r].outs[Last(W)].data.kv[lr.errorKey]

C5_Witness ==
    \E r \in Reqs :
        /\ req[r].kind = "Render" /\ req[r].rendered
        /\ Len(req[r].outs) = 3
        /\ UserFacing(req[r].outs[1])
        /\ Failed(req[r].outs[2]) /\ ~UserFacing(req[r].outs[2])
        /\ UserFacing(req[r].outs[3])
        /\ req[r].ctx.kv[lr.errorKey] = Strs(<< <<"A", "b">>, <<"A", "b">> >>)

C7_ViewValueWins ==
    \A r \in Reqs :
        (req[r].kind = "Handle" /\ req[r].rendered) =>
            \A k \in Keys(lr) \ {lr.errorKey} :
                LET W == Writers(req[r], k) IN
                W # {} => /\ k \in DOMAIN req[r].ctx.kv
                          /\ req[r].ctx.kv[k] = req[r].outs[Last(W)].data.kv[k]

\* C8: in Handle, with no map carrying the error key, the error key holds the
\* failing provider's classified message, and when both fail the default
\* provider's message, a separator, then the view-specific provider's
\* message, for every combination of UserFacing and Internal failures.
C8_ErrorStringConcatenates ==
    \A r \in Reqs :
        (req[r].kind = "Handle" /\ req[r].rendered /\ Writers(req[r], lr.errorKey) = {}) =>
            LET d == ErrOf(req[r], 0)
                v == ErrOf(req[r], 1)
                got == Lookup(req[r].ctx.kv, lr.errorKey) IN
            /\ (~d.isNil /\ v.isNil) => got = Str(Classified(lr, d))
            /\ (d.isNil /\ ~v.isNil) => got = Str(Classified(lr, v))
            /\ (~d.isNil /\ ~v.isNil) =>
                   got = Str(Classified(lr, d) \o <<" ">> \o Classified(lr, v))

\* C9: in Handle, whenever a provider failed the error key holds an error
\* string built from the classified messages, even when a provider also
\* returned a data entry under the error key.
C9_ErrorKeyWinsOverData ==
    \A r \in Reqs :
        (req[r].kind = "Handle" /\ req[r].rendered
            /\ \E j \in 1..Len(req[r].outs) : Failed(req[r].outs[j])) =>
            LET d == ErrOf(req[r], 0)
                v == ErrOf(req[r], 1) IN
            Lookup(req[r].ctx.kv, lr.errorKey) \in
                {Str(Classified(lr, e)) : e \in {d, v} \ {ErrNil}}
                \cup {Str(Classified(lr, d) \o <<" ">> \o Classified(lr, v))}

\* C10: in both generations a provider's map is merged whether or not the
\* provider also returned an error: away from the error key the context is
\* the one the same maps give with no error at all, and no key of a failing
\* provider's map is missing from the context.
C10_ErrorKeepsData ==
    \A r \in Reqs :
        req[r].rendered =>
            LET rq == req[r]
                clean == FinalCtx(lr, Replay(lr, Entered(rq), NoErrors(rq.outs))) IN
            /\ Without(rq.ctx.kv, lr.errorKey) = Without(clean.kv, lr.errorKey)
            /\ \A j \in 1..Len(rq.outs) :
                   Failed(rq.outs[j]) => DOMAIN rq.outs[j].data.kv \subseteq DOMAIN rq.ctx.kv

C10_Witness ==
    \E r \in Reqs :
        /\ req[r].kind = "Render" /\ req[r].rendered
        /\ Len(req[r].outs) = 2
        /\ UserFacing(req[r].outs[2])
        /\ req[r].outs[1].data.kv = [k \in {"title"} |-> Str(<<"x">>)]
        /\ req[r].outs[2].data.kv = [k \in {"title"} |-> Str(<<"y">>)]
        /\ req[r].ctx.kv["title"] = Str(<<"y">>)

\* ----------------------------------------------- reading the strings
\* the strings of a context: string values and the members of string lists
StringsOf(kv) ==
    {kv[k].s : k \in {x \in DOMAIN kv : kv[x].t = "string"}}
    \cup UNION {{kv[k].l[j] : j \in 1..Len(kv[k].l)} : k \in {x \in DOMAIN kv : kv[x].t = "[]string"}}
\* the strings a client can see: the context given to the engine and the text
\* written to the response
Visible(rq) ==
    (IF rq.rendered THEN StringsOf(rq.ctx.kv) ELSE {})
    \cup {rq.body[j].text : j \in 1..Len(rq.body)}
    \cup UNION {StringsOf(rq.body[j].ctx.kv) : j \in 1..Len(rq.body)}
Contains(s, t) ==
    \E i \in 1..(Len(s) - Len(t) + 1) : SubSeq(s, i, i + Len(t) - 1) = t
\* the same outcomes with the text of every returned error object blanked
Blank(e) == IF e.isNil THEN e ELSE [e EXCEPT !.msg = <<>>]
Scrubbed(outs) == [j \in 1..Len(outs) |-> [outs[j] EXCEPT !.err = Blank(@)]]
\* lower-case every rune, then upper-case the first
Shown(c) ==
    [i \in 1..Len(c) |-> IF i = 1 THEN ToUpper(ToLowerRune(c[i])) ELSE ToLowerRune(c[i])]

\* C11: in both generations the message text of the error object a provider
\* returned never reaches the context given to the engine or the response:
\* no visible string contains it, and the context is the one the same
\* outcomes give when that text is blanked (it depends on the unwrapped
\* cause and on the configured default error message only).
C11_RawErrorNeverShown ==
    \A r \in Reqs :
        LET rq == req[r] IN
        /\ \A j \in 1..Len(rq.outs) :
               Failed(rq.outs[j]) =>
                   \A s \in Visible(rq) : ~Contains(s, rq.outs[j].err.msg)
        /\ rq.rendered =>
               rq.ctx = FinalCtx(lr, Replay(lr, Entered(rq), Scrubbed(rq.outs)))

C11_Witness ==
    \E r \in Reqs :
        /\ req[r].kind = "Handle" /\ req[r].pc = "done"
        /\ Len(req[r].outs) = 2
        /\ req[r].outs[1].err = ErrWrap(<<"a", "B">>)
        /\ req[r].outs[2].err = ErrNew(RawInternal)
        /\ req[r].ctx.kv[lr.errorKey] = Str(InternalError)

\* C12: a provider error is UserFacing iff it unwraps one level to a non-nil
\* cause, and it is then shown as the cause's message lower-cased with its
\* first rune upper-cased ("a wrapped message" shows as "A wrapped message",
\* an empty cause message as the empty string); an error with no cause is
\* Internal: no entry in the accumulating pipeline, the default error
\* message in Handle / HandleStaticWithData.
C12_ClassifiedAndShown ==
    \A r \in Reqs :
        LET rq == req[r]
            ek == lr.errorKey
            U == UserOuts(rq) IN
        /\ (rq.kind = "Render" /\ rq.pc \in {"loop", "check", "done"}) =>
               rq.errStrings = [j \in 1..Len(U) |-> Shown(U[j].err.cause)]
        /\ (rq.kind = "Render" /\ rq.rendered) =>
               IF U = <<>> THEN ek \notin DOMAIN rq.ctx.kv
               ELSE rq.ctx.kv[ek] = Strs([j \in 1..Len(U) |-> Shown(U[j].err.cause)])
        /\ (rq.kind \in {"Handle", "HandleStatic"} /\ rq.rendered) =>
               LET d == ErrOf(rq, 0)
                   v == ErrOf(rq, 1) IN
               /\ (d.isNil /\ v.isNil) => ek \notin DOMAIN rq.ctx.kv
               /\ (~d.isNil /\ v.isNil) =>
                      rq.ctx.kv[ek] = Str(IF d.hasCause THEN Shown(d.cause) ELSE lr.defaultError)
               /\ (~v.isNil /\ ~v.hasCause) => rq.ctx.kv[ek] = Str(lr.defaultError)
               /\ (~v.isNil /\ v.hasCause) =>
                      /\ rq.ctx.kv[ek].t = "string"
                      /\ HasSuffix(rq.ctx.kv[ek].s, Shown(v.cause))
                      /\ d.isNil => rq.ctx.kv[ek].s = Shown(v.cause)
        /\ \A j \in 1..Len(rq.outs) :
               rq.outs[j].err = ErrWrap(AWrappedMessage) =>
                   Display(rq.outs[j].err) =
                       <<"A", " ", "w", "r", "a", "p", "p", "e", "d", " ",
                         "m", "e", "s", "s", "a", "g", "e">>

C12_Witness ==
    \E r \in Reqs :
        /\ req[r].kind = "Render" /\ req[r].rendered
        /\ Len(req[r].outs) = 2
        /\ req[r].outs[1].err = ErrWrap(<<"B", "B">>)
        /\ req[r].outs[2].err = ErrWrap(<<>>)
        /\ req[r].ctx.kv[lr.errorKey] = Strs(<< <<"B", "b">>, <<>> >>)

\* C13: for every configured fallback string and every context, when the
\* engine returns an error for a request the body written for that request
\* is exactly the configured fallback message, character for character.
C13_FallbackIsTheMessage ==
    \A r \in Reqs :
        (req[r].pc = "done" /\ req[r].rendered /\ ~req[r].ret.isNil) =>
            req[r].body = <<Text(lr.renderError)>>

\* ------------------------------------------------- reading New
\* the functions the caller supplied: the argument of the last AddFuncs
FuncOpts == {j \in 1..Len(boot.all) : boot.all[j].f = "funcs"}
UserFuncs == IF FuncOpts = {} THEN NoFuncs ELSE boot.all[Last(FuncOpts)].m

\* C14: the function table New hands to the engine contains every function
\* of the baseline library and every function supplied through AddFuncs, and
\* a name present in both maps to the user-supplied implementation.
C14_EngineGetsMergedFuncs ==
    boot.stage = "built" =>
        /\ \A n \in DOMAIN SprigFuncMap : n \in DOMAIN lr.viewEngine.Funcs
        /\ \A n \in DOMAIN UserFuncs :
               /\ n \in DOMAIN lr.viewEngine.Funcs
               /\ lr.viewEngine.Funcs[n] = UserFuncs[n]

\* the options New has applied so far
Applied == SubSeq(boot.all, 1, Len(boot.all) - Len(boot.todo))
\* the renderer field an option targets and the value it stores there
OptionFields ==
    {"defaultData", "errorKey", "partials", "extension", "funcs", "defaultError", "debug"}
FieldOf(f) == IF f = "defaultData" THEN "hasDefault" ELSE f
Stored(opt) ==
    CASE opt.f \in {"defaultData", "debug"} -> opt.v
      [] opt.f = "errorKey" -> opt.k
      [] opt.f = "extension" -> <<".">> \o opt.r
      [] opt.f = "funcs" -> opt.m
      [] OTHER -> opt.r

\* C15: configuration is last-write-wins: each field holds the value of the
\* last applied option that targets it, and its default when no applied
\* option targets it (funcs is read before New merges the library into it).
C15_LastWriteWins ==
    \A F \in OptionFields :
        LET T == {j \in 1..Len(Applied) : Applied[j].f = F} IN
        (F = "funcs" => boot.stage = "options") =>
            lr[FieldOf(F)] = IF T = {} THEN Defaults(lr.gen)[FieldOf(F)]
                             ELSE Stored(Applied[Last(T)])

C15_Witness ==
    /\ boot.stage = "built"
    /\ boot.all = <<[f |-> "extension", r |-> <<"t", "x", "t">>],
                    [f |-> "extension", r |-> <<"b", "a", "k">>]>>
    /\ lr.extension = <<".", "b", "a", "k">>
    /\ lr.errorKey = Defaults(lr.gen).errorKey

\* a name ends with ext; what is left of it in front of ext
EndsWith(n, ext) == \E k \in 0..Len(n) : SubSeq(n, 1, k) \o ext = n
Stem(n, ext) == CHOOSE st \in {SubSeq(n, 1, k) : k \in 0..Len(n)} : st \o ext = n
Matching(files, ext) == SelectSeq(files, LAMBDA n : EndsWith(n, ext))

\* C16: the partial list holds exactly one identifier
\* "<partials-dir>/<name without the extension>" per directory entry whose
\* name ends with the configured extension, in listing order, nothing for
\* any other entry, and that list is the one registered with the engine.
C16_PartialsAreTheMatchingEntries ==
    boot.stage \in {"engine", "built"} =>
        LET M == Matching(boot.dir.files, lr.extension) IN
        /\ Len(boot.found) = Len(M)
        /\ \A j \in 1..Len(M) :
               boot.found[j] = lr.partials \o <<"/">> \o Stem(M[j], lr.extension)
        /\ boot.stage = "built" => lr.viewEngine.Partials = boot.found

C16_Witness ==
    /\ boot.stage = "built"
    /\ boot.dir.files = <<FooterHtml, HeaderHtml, NotesTxt>>
    /\ lr.extension = DotHtml
    /\ lr.viewEngine.Partials =
           << PartialsDir \o <<"/", "f", "o", "o", "t", "e", "r">>,
              PartialsDir \o <<"/", "h", "e", "a", "d", "e", "r">> >>

\* C17: the context is assembled fresh for each request: the layer never
\* adds, changes or removes an entry of a map a provider returned, so when
\* the providers return the same map object on successive requests, a
\* request none of whose providers failed has no entry at the error key.
C17_ProviderMapUntouched ==
    /\ heap = SharedPage
    /\ \A r \in Reqs :
           (req[r].rendered /\ \A j \in 1..Len(req[r].outs) : ~Failed(req[r].outs[j])) =>
               lr.errorKey \notin DOMAIN req[r].ctx.kv

\* the providers a handler calls before it calls the engine, in order
AllCalls(cfg, rq) ==
    CASE rq.kind = "Render" -> ExpectedCalls(cfg, rq)
      [] rq.kind = "Handle" -> (IF cfg.hasDefault THEN <<0>> ELSE <<>>) \o <<1>>
      [] OTHER -> IF cfg.hasDefault THEN <<0>> ELSE <<>>
Fallbacks(rq) == Cardinality({j \in 1..Len(rq.body) : rq.body[j].w = "text"})

\* C18: every request invokes the engine exactly once, after the default
\* provider and every per-call provider have returned; when that call
\* returns an error the fallback is written exactly once and the handler
\* returns without a further provider or engine call, and when it succeeds
\* the fallback is never written.
C18_EngineOnceThenFallbackOnce ==
    \A r \in Reqs :
        LET rq == req[r] IN
        /\ rq.pc \in {"done", "panic"} => rq.rendered
        /\ rq.rendered => Calls(rq) = AllCalls(lr, rq)
        /\ rq.pc = "done" =>
               /\ Fallbacks(rq) = IF rq.ret.isNil THEN 0 ELSE 1
               /\ Len(rq.body) = 1

\* a provider that returns a fresh copy of d and no error (StaticView for
\* the nil d of HandleStatic: an empty map)
CopyProvider(d) == [p |-> 1, data |-> MapOf(d.kv), err |-> ErrNil]
\* the context Handle(view, p) hands to the engine after the same default
\* provider outcome
ViaHandle(cfg, rq) ==
    FinalCtx(cfg, Replay(cfg, [Idle EXCEPT !.kind = "Handle"],
                         rq.outs \o <<CopyProvider(rq.static)>>))

\* C19: HandleStaticWithData(view, d) hands the engine the same context as
\* Handle(view, p) with p returning a fresh copy of d and no error, for every
\* default-provider outcome and every d; HandleStatic(view) is
\* Handle(view, StaticView).
C19_StaticAgreesWithHandle ==
    \A r \in Reqs :
        (req[r].kind = "HandleStatic" /\ req[r].rendered) =>
            req[r].ctx = ViaHandle(lr, req[r])

====
